---- MODULE Spec2Model ----
(***************************************************************************)
(* Model of backend/bot_manager.py: the BotManager supervisor loop         *)
(* (update_bots / run), the per-tenant BotThread (run / stop /             *)
(* handle_message) and the part of backend/main.py that writes the         *)
(* tg_bot_token column the supervisor reads.                               *)
(*                                                                         *)
(* A BotThread object is an element of the sequence `threads`; its index   *)
(* is the object's identity (the "handle").  Objects are never removed     *)
(* from `threads`, so that a terminated thread can still be talked about.  *)
(***************************************************************************)
EXTENDS Integers, Sequences, FiniteSets, TLC

\* ------------------------------------------------------------------ bounds
NumTenants == 2
MaxUpdates == 2

MaxTime == 21
MaxMessages == 2

\* time.sleep(10)
SleepSeconds == 10

Tenants == 1..NumTenants
\* two credentials are enough for "the token changed"
Tokens == {"tok1", "tok2"}
\* every BotThread construction follows a profile update of its own (TypeOK)
MaxThreads == MaxUpdates

\* SQL NULL and the empty string, the two values the snapshot query filters out
NULL == "NULL"
EMPTY == ""
ColumnValues == Tokens \cup {NULL, EMPTY}

VARIABLES
    db_token,      \* users.tg_bot_token, per user id
    updates,       \* number of profile updates made so far (bounded)
    threads,       \* every BotThread object ever constructed
    bots,          \* BotManager.bots : user_id -> handle
    bots_order,    \* insertion order of the keys of BotManager.bots
    sup_pc,        \* where the supervisor thread (BotManager.run) is
    db_open,       \* update_bots' SessionLocal() is open
    user_tokens,   \* update_bots' local user_tokens (kept after return)
    stop_list,     \* what is left of list(self.bots.keys()) in the stop loop
    cur,           \* user_id whose thread the supervisor is joining
    start_todo,    \* what is left of user_tokens.items() in the start loop
    \* history, not program state
    bots0,         \* self.bots when the current/last cycle began
    done0,         \* handles whose run() had finished when that cycle began
    prev_tokens,   \* user_tokens of the cycle that returned before this one
    started,       \* user ids for which this cycle called start()
    stopped,       \* user ids for which this cycle called stop()
    cycles,        \* update_bots calls that returned: 0, 1, 2 (= two or more)
    blocked0,      \* users with is_active = False when that cycle's query ran
    desired0,      \* users with a non-null, non-empty token at that moment
    \* main.py: the other columns of users
    is_active,     \* users.is_active, per user id
    db_rows,       \* user ids that have a row in users
    db_prompt,     \* users.system_prompt, per user id
    \* BotThread.handle_message of the thread with handle 1
    m_pc,          \* position inside handle_message ("idle": not in it)
    m_update,      \* the update being handled
    m_prompt,      \* user.system_prompt as fetched for this update
    m_response,    \* what get_yandex_gpt_response returned
    m_db_open,     \* handle_message's SessionLocal() is open
    \* history of message handling
    received,      \* every update delivered, with what the database held
    fetches,       \* number of sessions handle_message opened
    calls,         \* every get_yandex_gpt_response call
    replies,       \* every reply_text call
    \* BotManager.run against the clock
    now,           \* the clock
    t_pc,          \* "cycle": inside update_bots, "sleep": inside time.sleep
    t_begin,       \* when the current/last update_bots call began
    t_end,         \* when it returned
    t_wake,        \* when the current time.sleep ends
    t_prev_begin,  \* when the call before it began
    t_prev_end,    \* when the call before it returned
    t_cycles       \* update_bots calls begun, 0, 1, 2 (= two or more)

progVars == <<db_token, updates, threads, bots, bots_order, sup_pc, db_open,
              user_tokens, stop_list, cur, start_todo>>
histVars == <<bots0, done0, prev_tokens, started, stopped, cycles, blocked0,
              desired0>>
rowVars == <<is_active, db_rows, db_prompt>>
msgVars == <<m_pc, m_update, m_prompt, m_response, m_db_open, received,
             fetches, calls, replies>>
timeVars == <<now, t_pc, t_begin, t_end, t_wake, t_prev_begin, t_prev_end,
              t_cycles>>
vars == <<progVars, histVars, rowVars, msgVars, timeVars>>
supVars == <<bots, bots_order, sup_pc, db_open, user_tokens, stop_list, cur,
             start_todo, histVars>>

Handles == 1..Len(threads)

\* ------------------------------------------------------------- dict helpers
DictDel(d, k) == [x \in (DOMAIN d) \ {k} |-> d[x]]
DictSet(d, k, v) == [x \in (DOMAIN d) \cup {k} |-> IF x = k THEN v ELSE d[x]]
SeqDel(s, k) == SelectSeq(s, LAMBDA x : x # k)

\* ------------------------------------------------------------- BotThread
\* BotThread.__init__: fields of a freshly constructed thread object.
\* st is the position of run(): "new" (start() called, run() not yet entered),
\* "connecting" (application built, initialize()/start() on the loop),
\* "polling" (run_polling, waiting for an update), "handling" (inside
\* handle_message), "done" (run() has returned, the thread is dead).
BotThread(token, user_id) ==
    [token |-> token, user_id |-> user_id, running |-> TRUE, st |-> "new",
     used_token |-> NULL, fail |-> "none"]

\* self.application is not None
application_set(th) == th.st # "new"
\* self.loop is not None
loop_set(th) == th.st # "new"
\* self.loop.is_running(), read from the supervisor's thread
loop_is_running(th) == th.st \in {"connecting", "polling", "handling"}
\* threading.Thread.is_alive()
is_alive(th) == th.st # "done"


\* BotThread.stop, the body of its try block: loop.run_until_complete() is
\* called from the supervisor's thread on a loop that the BotThread's own
\* thread is running, so asyncio raises RuntimeError("This event loop is
\* already running") before stop_application() gets to run at all.
stop_inner_error(th) ==
    application_set(th) /\ loop_set(th) /\ loop_is_running(th)

\* stop() as it would be without its try/except
stop_raises_uncaught(th) == stop_inner_error(th)

\* BotThread.stop: does an exception leave stop()?  `except Exception`
\* logs whatever the try block raised.
stop_raises(th) ==
    IF stop_inner_error(th) THEN FALSE ELSE FALSE

\* BotThread.stop: the thread object after the call.  Only the flag changes:
\* application.stop()/shutdown() are never awaited (see stop_inner_error), and
\* when the loop is not running the `if` skips them.
stop(th) == [th EXCEPT !.running = FALSE]

\* join() as it would be if the supervisor did not wait for the thread
join_returns_at_once(th) == TRUE

\* threading.Thread.join() without a timeout: returns once run() has returned
join_returns(th) == ~is_alive(th)

\* --------------------------------------------------- BotThread.run, by step
\* new_event_loop(); Application.builder().token(self.token).build()
run_build(h) ==
    /\ threads[h].st = "new"
    /\ threads' = [threads EXCEPT ![h].st = "connecting",
                                  ![h].used_token = threads[h].token]
    /\ UNCHANGED <<db_token, updates, supVars>>
    /\ UNCHANGED <<rowVars, msgVars, timeVars>>

\* application.initialize() and application.start() succeeded; run_polling
run_connected(h) ==
    /\ threads[h].st = "connecting"
    /\ threads' = [threads EXCEPT ![h].st = "polling"]
    /\ UNCHANGED <<db_token, updates, supVars>>
    /\ UNCHANGED <<rowVars, msgVars, timeVars>>

\* the thread object after run() left through `except Exception` / `finally`
run_failed(th) ==
    [th EXCEPT !.st = "done",
               !.fail = IF th.st = "connecting" THEN "connect" ELSE "loop"]

\* an exception inside the try block of run(): the connection could not be
\* established (initialize/start), or the polling loop broke.  It is logged,
\* the loop is closed, run() returns.  Nothing else is told to anybody.
run_fail(h) ==
    /\ threads[h].st \in {"connecting", "polling"}
    /\ threads' = [threads EXCEPT ![h] = run_failed(threads[h])]
    /\ UNCHANGED <<db_token, updates, supVars>>
    /\ UNCHANGED <<rowVars, msgVars, timeVars>>

\* an update arrives: the dispatcher enters handle_message
handle_message_begin(h) ==
    /\ threads[h].st = "polling"
    /\ threads' = [threads EXCEPT ![h].st = "handling"]
    /\ UNCHANGED <<db_token, updates, supVars>>
    /\ UNCHANGED <<rowVars, msgVars, timeVars>>

\* handle_message returns (get_yandex_gpt_response came back, reply sent)
handle_message_end(h) ==
    /\ threads[h].st = "handling"
    /\ threads' = [threads EXCEPT ![h].st = "polling"]
    /\ UNCHANGED <<db_token, updates, supVars>>
    /\ UNCHANGED <<rowVars, msgVars, timeVars>>

\* ------------------------------------------------------------- main.py
\* update_profile: tg_bot_token is overwritten when the request carries one
\* (any string, the empty one included; None leaves the column alone).
\* get_current_user lets only an existing, active user through.
update_profile(t, v) ==
    /\ updates < MaxUpdates
    /\ t \in db_rows /\ is_active[t]
    /\ v # db_token[t]
    /\ db_token' = [db_token EXCEPT ![t] = v]
    /\ updates' = updates + 1
    /\ UNCHANGED <<threads, supVars>>
    /\ UNCHANGED <<rowVars, msgVars, timeVars>>

\* block_user: the admin deactivates an existing user; nothing else is
\* written, the token column in particular stays
block_user(t) ==
    /\ updates < MaxUpdates
    /\ t \in db_rows /\ is_active[t]
    /\ is_active' = [is_active EXCEPT ![t] = FALSE]
    /\ updates' = updates + 1
    /\ UNCHANGED <<db_token, threads, supVars, db_rows, db_prompt, msgVars,
                   timeVars>>

\* ------------------------------------------------------------- BotManager
\* the query as it would be if it also asked for User.is_active
snapshot_active_only(tok) ==
    LET ids == {u \in Tenants : tok[u] # NULL /\ tok[u] # EMPTY /\ is_active[u]}
    IN  [u \in ids |-> tok[u]]

\* the filter of update_bots' query and the dict comprehension after it
snapshot(tok) ==
    LET ids == {u \in Tenants : tok[u] # NULL /\ tok[u] # EMPTY}
    IN  [u \in ids |-> tok[u]]

\* the stop condition without its token comparison
needs_stop_absent_only(user_id) == user_id \notin DOMAIN user_tokens

\* the stop condition without its membership test
needs_stop_token_only(user_id) ==
    /\ user_id \in DOMAIN user_tokens
    /\ threads[bots[user_id]].token # user_tokens[user_id]

\* the stop condition of a supervisor that restarts everything every cycle
needs_stop_always(user_id) == TRUE

\* the condition of the stop loop
needs_stop(user_id) ==
    \/ user_id \notin DOMAIN user_tokens
    \/ threads[bots[user_id]].token # user_tokens[user_id]

\* the condition of the start loop
needs_start(user_id) == user_id \notin DOMAIN bots

\* a restart that reuses the token of the thread it replaces
start_token_stale(user_id) ==
    IF user_id \in DOMAIN bots0
    THEN threads[bots0[user_id]].token
    ELSE user_tokens[user_id]

\* the token a new BotThread is constructed with in the start loop
start_token(user_id) == user_tokens[user_id]

Min(a, b) == IF a < b THEN a ELSE b

\* update_bots up to the first loop: open the session, run the query, build
\* user_tokens, take list(self.bots.keys())
update_bots_query ==
    /\ sup_pc = "sleep"
    /\ db_open' = TRUE
    /\ user_tokens' = snapshot(db_token)
    /\ stop_list' = bots_order
    /\ sup_pc' = "stop_loop"
    /\ bots0' = bots
    /\ done0' = {h \in Handles : ~is_alive(threads[h])}
    /\ prev_tokens' = user_tokens
    /\ started' = {}
    /\ stopped' = {}
    /\ UNCHANGED <<db_token, updates, threads, bots, bots_order, cur,
                   start_todo, cycles>>
    /\ blocked0' = {u \in Tenants : ~is_active[u]}
    /\ desired0' = {u \in Tenants : db_token[u] \notin {NULL, EMPTY}}
    /\ UNCHANGED <<rowVars, msgVars, timeVars>>

\* the failing query as it would be with db.close() after the loops instead
\* of in `finally`: the session stays open
update_bots_query_fail_leak ==
    /\ sup_pc = "sleep"
    /\ sup_pc' = "crashed"
    /\ db_open' = TRUE
    /\ UNCHANGED <<db_token, updates, threads, bots, bots_order, user_tokens,
                   stop_list, cur, start_todo, histVars>>
    /\ UNCHANGED <<rowVars, msgVars, timeVars>>

\* the query raises: `finally` closes the session, the exception leaves
\* update_bots and, run() having no handler, ends the supervisor's thread
update_bots_query_fail ==
    /\ sup_pc = "sleep"
    /\ sup_pc' = "crashed"
    /\ db_open' = FALSE
    /\ UNCHANGED <<db_token, updates, threads, bots, bots_order, user_tokens,
                   stop_list, cur, start_todo, histVars>>
    /\ UNCHANGED <<rowVars, msgVars, timeVars>>

\* one iteration of the stop loop, up to and including the call of stop()
stop_loop_step ==
    /\ sup_pc = "stop_loop"
    /\ stop_list # <<>>
    /\ LET user_id == Head(stop_list)
           h == bots[user_id]
       IN  /\ stop_list' = Tail(stop_list)
           /\ IF needs_stop(user_id)
              THEN /\ threads' = [threads EXCEPT ![h] = stop(threads[h])]
                   /\ stopped' = stopped \cup {user_id}
                   /\ IF stop_raises(threads[h])
                      THEN /\ sup_pc' = "crashed"
                           /\ db_open' = FALSE
                           /\ cur' = cur
                      ELSE /\ sup_pc' = "join"
                           /\ db_open' = db_open
                           /\ cur' = user_id
              ELSE /\ UNCHANGED <<threads, stopped, sup_pc, db_open, cur>>
    /\ UNCHANGED <<db_token, updates, bots, bots_order, user_tokens,
                   start_todo, bots0, done0, prev_tokens, started, cycles>>
    /\ UNCHANGED <<blocked0, desired0, rowVars, msgVars, timeVars>>

\* self.bots[user_id].join(); del self.bots[user_id]
stop_loop_join ==
    /\ sup_pc = "join"
    /\ join_returns(threads[bots[cur]])
    /\ bots' = DictDel(bots, cur)
    /\ bots_order' = SeqDel(bots_order, cur)
    /\ sup_pc' = "stop_loop"
    /\ cur' = 0
    /\ UNCHANGED <<db_token, updates, threads, db_open, user_tokens,
                   stop_list, start_todo, histVars>>
    /\ UNCHANGED <<rowVars, msgVars, timeVars>>

\* the stop loop is exhausted: user_tokens.items() is taken
stop_loop_end ==
    /\ sup_pc = "stop_loop"
    /\ stop_list = <<>>
    /\ start_todo' = DOMAIN user_tokens
    /\ sup_pc' = "start_loop"
    /\ UNCHANGED <<db_token, updates, threads, bots, bots_order, db_open,
                   user_tokens, stop_list, cur, histVars>>
    /\ UNCHANGED <<rowVars, msgVars, timeVars>>

\* one iteration of the start loop.  The rows come in the order the query
\* returned them, which the query does not fix (no ORDER BY).
start_loop_step ==
    /\ sup_pc = "start_loop"
    /\ \E user_id \in start_todo :
        /\ start_todo' = start_todo \ {user_id}
        /\ IF needs_start(user_id)
           THEN /\ threads' = Append(threads,
                                     BotThread(start_token(user_id), user_id))
                /\ bots' = DictSet(bots, user_id, Len(threads) + 1)
                /\ bots_order' = Append(bots_order, user_id)
                /\ started' = started \cup {user_id}
           ELSE UNCHANGED <<threads, bots, bots_order, started>>
    /\ UNCHANGED <<db_token, updates, sup_pc, db_open, user_tokens, stop_list,
                   cur, bots0, done0, prev_tokens, stopped, cycles>>
    /\ UNCHANGED <<blocked0, desired0, rowVars, msgVars, timeVars>>

\* the start loop is exhausted: `finally` closes the session, update_bots
\* returns and run() goes to time.sleep
update_bots_return ==
    /\ sup_pc = "start_loop"
    /\ start_todo = {}
    /\ db_open' = FALSE
    /\ sup_pc' = "sleep"
    /\ cycles' = Min(cycles + 1, 2)
    /\ UNCHANGED <<db_token, updates, threads, bots, bots_order, user_tokens,
                   stop_list, cur, start_todo, bots0, done0, prev_tokens,
                   started, stopped>>
    /\ UNCHANGED <<blocked0, desired0, rowVars, msgVars, timeVars>>

\* ------------------------------------------- BotThread.handle_message
\* the two fixed reply texts (the source has them in Russian)
NotConfiguredReply == "system prompt is not configured"
DegradedReply == "error while generating the answer"

\* values of users.system_prompt other than NULL; the empty string is one
Prompts == {EMPTY, "p1", "p2"}
\* texts the completion service answers with
Answers == {"a1", "a2"}
\* updates the dispatcher may hand to handle_message
Updates ==
    {[message |-> FALSE, text |-> NULL],
     [message |-> TRUE, text |-> NULL],
     [message |-> TRUE, text |-> EMPTY],
     [message |-> TRUE, text |-> "hi"]}

\* update_profile with a system_prompt (any string, None leaves the column)
update_profile_prompt(t, v) ==
    /\ updates < MaxUpdates
    /\ t \in db_rows /\ is_active[t]
    /\ v # db_prompt[t]
    /\ db_prompt' = [db_prompt EXCEPT ![t] = v]
    /\ updates' = updates + 1
    /\ UNCHANGED <<db_token, threads, supVars, is_active, db_rows, msgVars,
                   timeVars>>

\* a handler that handles whatever it is given
has_text_any(u) == TRUE

\* the negation of `not update.message or not update.message.text`
has_text(u) == u.message /\ u.text # NULL /\ u.text # EMPTY

\* the test of ask_question (truthiness), used in handle_message
prompt_configured_truthy(user_id) ==
    /\ user_id \in db_rows
    /\ db_prompt[user_id] # NULL
    /\ db_prompt[user_id] # EMPTY

\* user is not None and user.system_prompt is not None
prompt_configured(user_id) ==
    /\ user_id \in db_rows
    /\ db_prompt[user_id] # NULL

\* a thread that keeps the prompt of its last completion call
fetch_prompt_cached(user_id) ==
    IF calls # <<>> THEN calls[Len(calls)].system_prompt ELSE db_prompt[user_id]

\* user.system_prompt of the row just queried
fetch_prompt(user_id) == db_prompt[user_id]

\* get_yandex_gpt_response without its try/except
get_yandex_gpt_response_uncaught(outcome, answer) ==
    [raised |-> outcome # "ok",
     text |-> IF outcome = "ok" THEN answer ELSE NULL]

\* get_yandex_gpt_response: the service's text, or, whatever went wrong
\* (connection, HTTP status, shape of the JSON), the fixed string
get_yandex_gpt_response(outcome, answer) ==
    [raised |-> FALSE,
     text |-> IF outcome = "ok" THEN answer ELSE DegradedReply]

\* the dispatcher calls handle_message; an update without message or text
\* makes it return at once
hm_enter(h, u) ==
    /\ threads[h].st = "polling"
    /\ m_pc = "idle"
    /\ Len(received) < MaxMessages
    /\ received' = Append(received, [update |-> u, row |-> "unread",
                                     prompt |-> NULL])
    /\ IF has_text(u)
       THEN /\ threads' = [threads EXCEPT ![h].st = "handling"]
            /\ m_pc' = "fetch"
            /\ m_update' = u
       ELSE UNCHANGED <<threads, m_pc, m_update>>
    /\ UNCHANGED <<db_token, updates, supVars, rowVars, m_prompt, m_response,
                   m_db_open, fetches, calls, replies, timeVars>>

\* db = SessionLocal(); the query for the thread's user; the branch
hm_fetch(h) ==
    /\ threads[h].st = "handling"
    /\ m_pc = "fetch"
    /\ LET user_id == threads[h].user_id
       IN  /\ received' =
                [received EXCEPT ![Len(received)] =
                    [@ EXCEPT !.row = IF user_id \in db_rows
                                      THEN "present" ELSE "missing",
                              !.prompt = IF user_id \in db_rows
                                         THEN db_prompt[user_id] ELSE NULL]]
           /\ IF prompt_configured(user_id)
              THEN /\ m_prompt' = fetch_prompt(user_id)
                   /\ m_pc' = "complete"
              ELSE /\ m_prompt' = NULL
                   /\ m_pc' = "reply_unconfigured"
    /\ m_db_open' = TRUE
    /\ fetches' = fetches + 1
    /\ UNCHANGED <<progVars, histVars, rowVars, m_update, m_response, calls,
                   replies, timeVars>>

\* response = get_yandex_gpt_response(user_message, user.system_prompt).
\* Were an exception to leave it, `finally` would close the session and the
\* dispatcher would log the handler's error.
hm_complete(h, outcome, answer) ==
    /\ threads[h].st = "handling"
    /\ m_pc = "complete"
    /\ LET res == get_yandex_gpt_response(outcome, answer)
       IN  /\ calls' = Append(calls,
                  [msg |-> Len(received), prompt |-> m_update.text,
                   system_prompt |-> m_prompt, outcome |-> outcome,
                   raised |-> res.raised, result |-> res.text])
           /\ IF res.raised
              THEN /\ m_pc' = "idle"
                   /\ m_db_open' = FALSE
                   /\ m_update' = NULL
                   /\ m_prompt' = NULL
                   /\ m_response' = NULL
                   /\ threads' = [threads EXCEPT ![h].st = "polling"]
              ELSE /\ m_pc' = "reply"
                   /\ m_response' = res.text
                   /\ UNCHANGED <<m_db_open, m_update, m_prompt, threads>>
    /\ UNCHANGED <<db_token, updates, supVars, rowVars, received, fetches,
                   replies, timeVars>>

\* await update.message.reply_text(...); finally: db.close(); return
hm_reply(h) ==
    /\ threads[h].st = "handling"
    /\ m_pc \in {"reply", "reply_unconfigured"}
    /\ replies' = Append(replies,
           [msg |-> Len(received),
            text |-> IF m_pc = "reply" THEN m_response
                     ELSE NotConfiguredReply])
    /\ m_db_open' = FALSE
    /\ m_pc' = "idle"
    /\ m_update' = NULL
    /\ m_prompt' = NULL
    /\ m_response' = NULL
    /\ threads' = [threads EXCEPT ![h].st = "polling"]
    /\ UNCHANGED <<db_token, updates, supVars, rowVars, received, fetches,
                   calls, timeVars>>

\* one thread, started by a cycle for user 1 and polling; the user's row may
\* have been deleted from the table since; any prompt
MsgInit ==
    /\ db_token = [u \in Tenants |-> IF u = 1 THEN "tok1" ELSE NULL]
    /\ updates = 0
    /\ threads = <<[BotThread("tok1", 1) EXCEPT !.st = "polling",
                                                 !.used_token = "tok1"]>>
    /\ bots = <<1>>
    /\ bots_order = <<1>>
    /\ sup_pc = "sleep"
    /\ db_open = FALSE
    /\ user_tokens = <<"tok1">>
    /\ stop_list = <<>>
    /\ cur = 0
    /\ start_todo = {}
    /\ bots0 = <<>>
    /\ done0 = {}
    /\ prev_tokens = <<>>
    /\ started = {1}
    /\ stopped = {}
    /\ cycles = 1
    /\ blocked0 = {}
    /\ desired0 = {1}
    /\ is_active = [u \in Tenants |-> TRUE]
    /\ db_rows \in {Tenants, Tenants \ {1}}
    /\ \E p \in Prompts \cup {NULL} :
         db_prompt = [u \in Tenants |-> IF u = 1 THEN p ELSE NULL]
    /\ m_pc = "idle"
    /\ m_update = NULL
    /\ m_prompt = NULL
    /\ m_response = NULL
    /\ m_db_open = FALSE
    /\ received = <<>>
    /\ fetches = 0
    /\ calls = <<>>
    /\ replies = <<>>
    /\ now = 0
    /\ t_pc = "sleep"
    /\ t_begin = 0
    /\ t_end = 0
    /\ t_wake = 0
    /\ t_prev_begin = 0
    /\ t_prev_end = 0
    /\ t_cycles = 0

MsgNext ==
    \/ \E h \in Handles, u \in Updates : hm_enter(h, u)
    \/ \E h \in Handles : hm_fetch(h)
    \/ \E h \in Handles, a \in Answers : hm_complete(h, "ok", a)
    \/ \E h \in Handles : hm_complete(h, "fail", NULL)
    \/ \E h \in Handles : hm_reply(h)
    \/ \E t \in Tenants, v \in Prompts : update_profile_prompt(t, v)

\* one BotThread handling updates while profiles are edited
MsgSpec == MsgInit /\ [][MsgNext]_vars

\* ------------------------------------------- BotManager.run and the clock
\* a run() that keeps a period of SleepSeconds between cycle starts
sleep_for_fixed_rate(d) == IF d < SleepSeconds THEN SleepSeconds - d ELSE 0

\* the argument of time.sleep after an update_bots call that took d
sleep_for(d) == SleepSeconds

\* time.sleep has returned (or run() was just entered): update_bots is called
run_call_update_bots ==
    /\ t_pc = "sleep"
    /\ now = t_wake
    /\ t_pc' = "cycle"
    /\ t_begin' = now
    /\ t_prev_begin' = t_begin
    /\ t_prev_end' = t_end
    /\ t_cycles' = Min(t_cycles + 1, 2)
    /\ UNCHANGED <<progVars, histVars, rowVars, msgVars, now, t_end, t_wake>>

\* update_bots returns: time.sleep is entered
run_sleep ==
    /\ t_pc = "cycle"
    /\ t_pc' = "sleep"
    /\ t_end' = now
    /\ t_wake' = now + sleep_for(now - t_begin)
    /\ UNCHANGED <<progVars, histVars, rowVars, msgVars, now, t_begin,
                   t_prev_begin, t_prev_end, t_cycles>>

\* one time unit passes: update_bots takes as long as it takes, time.sleep
\* returns when its time is over
tick ==
    /\ now < MaxTime
    /\ t_pc = "sleep" => now < t_wake
    /\ now' = now + 1
    /\ UNCHANGED <<progVars, histVars, rowVars, msgVars, t_pc, t_begin, t_end,
                   t_wake, t_prev_begin, t_prev_end, t_cycles>>

TimeNext == run_call_update_bots \/ run_sleep \/ tick

\* ------------------------------------------------------------- system
\* create_user: is_active defaults to True, the profile columns to NULL
RowsInit ==
    /\ is_active = [u \in Tenants |-> TRUE]
    /\ db_rows = Tenants
    /\ db_prompt = [u \in Tenants |-> NULL]

\* no update has been delivered to the observed thread
MsgIdle ==
    /\ m_pc = "idle"
    /\ m_update = NULL
    /\ m_prompt = NULL
    /\ m_response = NULL
    /\ m_db_open = FALSE
    /\ received = <<>>
    /\ fetches = 0
    /\ calls = <<>>
    /\ replies = <<>>

\* the clock is not observed
TimeIdle ==
    /\ now = 0
    /\ t_pc = "sleep"
    /\ t_begin = 0
    /\ t_end = 0
    /\ t_wake = 0
    /\ t_prev_begin = 0
    /\ t_prev_end = 0
    /\ t_cycles = 0

Init ==
    /\ db_token = [u \in Tenants |-> NULL]
    /\ updates = 0
    /\ threads = <<>>
    /\ bots = <<>>
    /\ bots_order = <<>>
    /\ sup_pc = "sleep"
    /\ db_open = FALSE
    /\ user_tokens = <<>>
    /\ stop_list = <<>>
    /\ cur = 0
    /\ start_todo = {}
    /\ bots0 = <<>>
    /\ done0 = {}
    /\ prev_tokens = <<>>
    /\ started = {}
    /\ stopped = {}
    /\ cycles = 0
    /\ blocked0 = {}
    /\ desired0 = {}
    /\ RowsInit
    /\ MsgIdle
    /\ TimeIdle

Supervisor ==
    \/ update_bots_query
    \/ update_bots_query_fail
    \/ stop_loop_step
    \/ stop_loop_join
    \/ stop_loop_end
    \/ start_loop_step
    \/ update_bots_return

WorkerProgress == \E h \in Handles : run_build(h) \/ run_connected(h)

Worker ==
    \/ \E h \in Handles : run_build(h)
    \/ \E h \in Handles : run_connected(h)
    \/ \E h \in Handles : run_fail(h)
    \/ \E h \in Handles : handle_message_begin(h)
    \/ \E h \in Handles : handle_message_end(h)

Environment == \E t \in Tenants, v \in Tokens \cup {EMPTY} : update_profile(t, v)

Next == Supervisor \/ Worker \/ Environment

Spec == Init /\ [][Next]_vars

\* the same system with an admin who blocks users
Admin == \E t \in Tenants : block_user(t)

BlockNext == Supervisor \/ Worker \/ Environment \/ Admin

BlockSpec == Init /\ [][BlockNext]_vars

\* BotManager.run alone, against the clock
TimeSpec == Init /\ [][TimeNext]_vars

\* The supervisor's thread and each BotThread are OS threads: a step that is
\* continuously possible is eventually taken.  Nothing makes a polling loop
\* fail, an update arrive or the completion service answer.
FairSpec == Spec /\ WF_vars(Supervisor) /\ WF_vars(WorkerProgress)

TypeOK ==
    /\ db_token \in [Tenants -> ColumnValues]
    /\ updates \in 0..MaxUpdates
    /\ sup_pc \in {"sleep", "stop_loop", "join", "start_loop", "crashed"}
    /\ DOMAIN bots \subseteq Tenants
    /\ \A u \in DOMAIN bots : bots[u] \in Handles
    /\ \A h \in Handles :
         threads[h].st \in {"new", "connecting", "polling", "handling", "done"}
    /\ Len(threads) <= MaxThreads


\* ------------------------------------------------------------- properties
\* update_bots has returned at least once and the supervisor is in time.sleep:
\* bots0/user_tokens/started/stopped describe the call that returned last
Returned == sup_pc = "sleep" /\ cycles > 0

\* tenants whose registry entry had another token than the snapshot's when
\* the cycle began
TokenChanged == {u \in (DOMAIN bots0) \cap (DOMAIN user_tokens) :
                    threads[bots0[u]].token # user_tokens[u]}

\* tenants in the registry when the cycle began and not in the snapshot
Removed == (DOMAIN bots0) \ (DOMAIN user_tokens)

\* C1: after every update_bots call that returns, the registry's key set is
\* the key set of the snapshot read by that call, and each registered
\* thread's token is the snapshot's token for its tenant.
C1_RegistryMatchesDesired ==
    Returned =>
        /\ DOMAIN bots = DOMAIN user_tokens
        /\ \A u \in DOMAIN bots : threads[bots[u]].token = user_tokens[u]

\* a cycle that both stopped and started something has returned
C1_Witness ==
    /\ Returned
    /\ stopped # {}
    /\ started # {}
    /\ DOMAIN bots # {}

\* C2: at any time a tenant has at most one thread whose run() has not
\* finished and at most one registry entry; so a replaced thread is dead
\* before its replacement is started.
C2_OneWorkerPerTenant ==
    /\ \A u \in Tenants :
         Cardinality({h \in Handles : threads[h].user_id = u
                                      /\ is_alive(threads[h])}) <= 1
    /\ \A i, j \in 1..Len(bots_order) :
         bots_order[i] = bots_order[j] => i = j
    /\ {bots_order[i] : i \in 1..Len(bots_order)} = DOMAIN bots
    /\ \A u \in DOMAIN bots : threads[bots[u]].user_id = u

\* a tenant's second thread is alive, its first one exists
C2_Witness ==
    \E h, g \in Handles :
        /\ h < g
        /\ threads[h].user_id = threads[g].user_id
        /\ is_alive(threads[g])
        /\ bots[threads[g].user_id] = g

\* the supervisor is inside update_bots, past the query
InCycle == sup_pc \in {"stop_loop", "join", "start_loop"}

\* what the return of a cycle that saw tenant u's token changed leaves: stop()
\* was called on the old thread and it is dead, a new thread for the tenant
\* was started in that cycle, it carries the snapshot's token and builds its
\* application with no other token
TokenChangeDone(u) ==
    /\ Returned
    /\ u \in TokenChanged
    /\ u \in stopped
    /\ u \in started
    /\ ~is_alive(threads[bots0[u]])
    /\ ~threads[bots0[u]].running
    /\ u \in DOMAIN bots
    /\ bots[u] > bots0[u]
    /\ threads[bots[u]].token = user_tokens[u]
    /\ threads[bots[u]].used_token \in {NULL, user_tokens[u]}

\* what the return of a cycle that saw registered tenant u missing from the
\* snapshot leaves: stop() was called, the thread is dead, the entry is gone
RemovalDone(u) ==
    /\ Returned
    /\ u \in Removed
    /\ u \in stopped
    /\ ~threads[bots0[u]].running
    /\ ~is_alive(threads[bots0[u]])
    /\ u \notin DOMAIN bots

\* C3: the cycle that finds a registered tenant's token changed stops the
\* tenant's old thread and starts a new one with the new token, in that cycle.
C3_TokenChangeRestarts ==
    \A u \in Tenants : (InCycle /\ u \in TokenChanged) ~> TokenChangeDone(u)

\* C4: the cycle that finds a registered tenant missing from the snapshot has
\* the tenant's thread stopped and the registry entry removed by its end.
C4_RemovedTenantStopped ==
    \A u \in Tenants : (InCycle /\ u \in Removed) ~> RemovalDone(u)

\* The part of C3 and C4 the code does deliver: IF the cycle returns (the old
\* thread having ended by itself), it leaves what the claims say.
AtReturn_TokenChange == Returned => \A u \in TokenChanged : TokenChangeDone(u)
AtReturn_Removal == Returned => \A u \in Removed : RemovalDone(u)

\* the replacement of a thread that had been polling is connected with the
\* new token
AtReturn_TokenChange_Witness ==
    /\ Returned
    /\ \E u \in TokenChanged :
         /\ threads[bots0[u]].fail = "loop"
         /\ threads[bots[u]].st = "polling"
         /\ threads[bots[u]].used_token = user_tokens[u]

AtReturn_Removal_Witness ==
    /\ Returned
    /\ \E u \in Removed : threads[bots0[u]].fail = "loop"

\* registered tenants whose thread had already left run() through its
\* except/finally when the cycle began, by where the exception came from
FailedBefore(kind) ==
    {u \in DOMAIN bots0 : bots0[u] \in done0 /\ threads[bots0[u]].fail = kind}

\* C5: a thread whose polling loop ended on an exception is no longer the
\* registry's entry for its tenant when the next cycle returns, and that
\* cycle starts a new thread for the tenant if the snapshot still has it.
C5_FailedWorkerRestarted ==
    Returned =>
        \A u \in FailedBefore("loop") :
            /\ u \in DOMAIN bots => bots[u] # bots0[u]
            /\ u \in DOMAIN user_tokens => u \in started

\* C6: a thread that failed to establish its connection is not in the
\* registry when update_bots returns, and every later cycle whose snapshot
\* has the tenant starts a thread for it again.
C6_ConnectFailureRetried ==
    Returned =>
        /\ \A u \in DOMAIN bots : threads[bots[u]].fail # "connect"
        /\ \A u \in FailedBefore("connect") :
             u \in DOMAIN user_tokens => u \in started

\* C7: every cycle terminates: a supervisor waiting for a stopped thread
\* goes on with the cycle.
C7_CycleTerminates == (sup_pc = "join") ~> (sup_pc # "join")

\* C8: a live thread on which stop() has been called eventually leaves run().
C8_StopTerminatesWorker ==
    \A h \in 1..MaxThreads :
        (h \in Handles /\ is_alive(threads[h]) /\ ~threads[h].running)
            ~> (h \in Handles /\ ~is_alive(threads[h]))

C10_Idempotent ==
    (Returned /\ cycles = 2 /\ user_tokens = prev_tokens) =>
        /\ started = {}
        /\ stopped = {}
        /\ bots = bots0

\* a second cycle with the same non-empty snapshot has returned, after the
\* first one started something
C10_Witness ==
    /\ Returned
    /\ cycles = 2
    /\ user_tokens = prev_tokens
    /\ DOMAIN user_tokens # {}
    /\ \E u \in DOMAIN bots : is_alive(threads[bots[u]])


\* tenants registered when the cycle began whose token equals the snapshot's
Kept == {u \in (DOMAIN bots0) \cap (DOMAIN user_tokens) :
            threads[bots0[u]].token = user_tokens[u]}

\* C16: during and after a cycle, every tenant that was registered with the
\* snapshot's token keeps the very thread object it had: stop() is not called
\* on it, no thread is started for it, whatever happens to other tenants.
C16_KeptUntouched ==
    (InCycle \/ Returned) =>
        \A u \in Kept :
            /\ u \in DOMAIN bots
            /\ bots[u] = bots0[u]
            /\ u \notin stopped
            /\ u \notin started
            /\ threads[bots[u]].running

\* a cycle that started or stopped another tenant's thread has returned
C16_Witness ==
    /\ Returned
    /\ \E u \in Kept : \E v \in Tenants \ {u} : v \in started \cup stopped

\* tenants whose registered thread had left run() when the cycle began
DeadBefore == {u \in DOMAIN bots0 : bots0[u] \in done0}

C18_QueryFailureFrame ==
    [][(sup_pc = "sleep" /\ sup_pc' = "crashed") =>
            /\ threads' = threads
            /\ bots' = bots
            /\ bots_order' = bots_order
            /\ started' = started
            /\ stopped' = stopped
            /\ db_open' = FALSE]_vars

\* the query has failed with a live thread in the registry
C18_Witness ==
    /\ sup_pc = "crashed"
    /\ ~db_open
    /\ \E u \in DOMAIN bots : is_alive(threads[bots[u]])


\* C19: the snapshot of a cycle holds exactly the users whose token was
\* non-null and non-empty when the query ran, blocked or not; a blocked user
\* registered with that token keeps its thread: stop() is not called on it
\* and its registry entry stays.
C19_BlockedTenantKept ==
    (InCycle \/ Returned) =>
        /\ DOMAIN user_tokens = desired0
        /\ \A u \in blocked0 \cap Kept :
             /\ u \in DOMAIN bots
             /\ bots[u] = bots0[u]
             /\ u \notin stopped
             /\ threads[bots[u]].running

\* a cycle that began after a registered user was blocked has returned and
\* the user's thread is polling
C19_Witness ==
    /\ Returned
    /\ \E u \in blocked0 \cap Kept : threads[bots[u]].st = "polling"


\* how long the update_bots call before the current one took
PrevDuration == t_prev_end - t_prev_begin

IsText(u) == u.message /\ u.text # NULL /\ u.text # EMPTY
\* the row existed with a non-null system_prompt when update i was handled
Configured(i) == received[i].row = "present" /\ received[i].prompt # NULL
CallsOf(i) == {k \in 1..Len(calls) : calls[k].msg = i}
RepliesOf(i) == {j \in 1..Len(replies) : replies[j].msg = i}
\* update i has been dealt with
Handled(i) == i < Len(received) \/ m_pc = "idle"

\* C11: a text message to a tenant with a system prompt makes exactly one
\* completion call and exactly one reply, whose text is what the call
\* returned; without a prompt, or without a row, it makes no call and
\* exactly one reply, the "not configured" text.
C11_OneCallOneReply ==
    \A i \in 1..Len(received) :
        (IsText(received[i].update) /\ Handled(i)) =>
            /\ Cardinality(RepliesOf(i)) = 1
            /\ IF Configured(i)
               THEN /\ Cardinality(CallsOf(i)) = 1
                    /\ \A k \in CallsOf(i), j \in RepliesOf(i) :
                         replies[j].text = calls[k].result
               ELSE /\ CallsOf(i) = {}
                    /\ \A j \in RepliesOf(i) :
                         replies[j].text = NotConfiguredReply

\* one message was answered with the service's text, another with the
\* "not configured" text
C11_Witness ==
    /\ m_pc = "idle"
    /\ \E j \in 1..Len(replies) : replies[j].text \in Answers
    /\ \E j \in 1..Len(replies) : replies[j].text = NotConfiguredReply

\* C12: a failed completion call returns the fixed degraded text, nothing is
\* raised into handle_message, the message is answered with that text and
\* the thread stays alive, back in its polling loop.
C12_CompletionFailureSwallowed ==
    \A k \in 1..Len(calls) :
        calls[k].outcome = "fail" =>
            /\ ~calls[k].raised
            /\ calls[k].result = DegradedReply
            /\ \A h \in Handles : is_alive(threads[h])
            /\ Handled(calls[k].msg) =>
                 /\ Cardinality(RepliesOf(calls[k].msg)) = 1
                 /\ \A j \in RepliesOf(calls[k].msg) :
                      replies[j].text = DegradedReply

\* after a failed call, a later message has been answered
C12_Witness ==
    \E k \in 1..Len(calls) :
        /\ calls[k].outcome = "fail"
        /\ \E j \in 1..Len(replies) :
             /\ replies[j].msg > calls[k].msg
             /\ replies[j].text \in Answers

\* C13: every completion call carries the system prompt the table held when
\* its own message was handled, not an earlier one.
C13_PromptFetchedFresh ==
    \A k \in 1..Len(calls) :
        calls[k].system_prompt = received[calls[k].msg].prompt

\* two messages were completed with two different prompts
C13_Witness ==
    \E k, l \in 1..Len(calls) :
        /\ k < l
        /\ calls[k].system_prompt # calls[l].system_prompt

\* C14: an update without message or text opens no session, makes no
\* completion call and no reply, and leaves the thread polling.
C14_NoTextIgnored ==
    /\ \A i \in 1..Len(received) :
         ~IsText(received[i].update) =>
            /\ received[i].row = "unread"
            /\ CallsOf(i) = {}
            /\ RepliesOf(i) = {}
    /\ fetches <= Cardinality({i \in 1..Len(received) :
                                  IsText(received[i].update)})
    /\ (received # <<>> /\ ~IsText(received[Len(received)].update)) =>
            /\ m_pc = "idle"
            /\ ~m_db_open
            /\ \A h \in Handles : threads[h].st = "polling"

\* an update without text was delivered, and a text message after it was
\* answered
C14_Witness ==
    /\ Len(received) = 2
    /\ ~IsText(received[1].update)
    /\ RepliesOf(2) # {}

====
